---- MODULE Spec2Model ----
(***************************************************************************)
(* State-machine model of the SAMurAI software-asset-management service    *)
(* (src/app.py): the users, software and licenses tables, the JSON CRUD    *)
(* handlers that mutate them, and the statistics and views that read them. *)
(*                                                                         *)
(* Text values that the code converts (usernames, emails, passwords) are   *)
(* sequences of one-character strings, so that str.strip() and             *)
(* str.lower() are computed character by character.  Values the code only  *)
(* compares (roles, software names, vendors) are plain strings.            *)
(*                                                                         *)
(* Every handler is an operator named after the Python function; it maps   *)
(* the tables and the request to the tables after the request and the      *)
(* HTTP response.  The actions are named after the routes and apply the    *)
(* handlers.  A handler that returns before db.session.commit() leaves the *)
(* tables as they were: the scoped session is removed when the request     *)
(* ends, which discards whatever was assigned or flushed but not           *)
(* committed.                                                              *)
(*                                                                         *)
(* A request is one step, except in SpecConcurrent, where a handler's      *)
(* checks and its commit are two steps and inflight holds the requests     *)
(* between the two; everywhere else inflight is empty.  In SpecReads the   *)
(* names, vendors and descriptions are sequences of characters too, since  *)
(* the search matches them character by character.                         *)
(***************************************************************************)
EXTENDS Integers, Sequences, FiniteSets, TLC

VARIABLES
    users,      \* users table: id -> row
    software,   \* software table: id -> row
    licenses,   \* licenses table: id -> row
    response,   \* the response to the last request
    inflight    \* requests handled side by side: worker -> what it is doing

vars == <<users, software, licenses, response, inflight>>

(***************************************************************************)
(* Bounds of the model.                                                    *)
(***************************************************************************)
MaxUsers == 3

MaxSoftware == 2

(***************************************************************************)
(* Text helpers.                                                           *)
(***************************************************************************)
\* str.lower() on one character
LowerChar(c) ==
    CASE c = "A" -> "a"
      [] c = "B" -> "b"
      [] c = "C" -> "c"
      [] OTHER -> c

\* str.lower()
lower(s) == [i \in DOMAIN s |-> LowerChar(s[i])]

RECURSIVE lstrip(_)
lstrip(s) ==
    IF s # <<>> /\ Head(s) = " " THEN lstrip(Tail(s)) ELSE s

RECURSIVE rstrip(_)
rstrip(s) ==
    IF s # <<>> /\ s[Len(s)] = " " THEN rstrip(SubSeq(s, 1, Len(s) - 1)) ELSE s

\* str.strip()
strip(s) == rstrip(lstrip(s))

\* werkzeug's generate_password_hash: a digest that is not the password
generate_password_hash(password) == <<"pbkdf2">> \o password

(***************************************************************************)
(* The users table.                                                        *)
(***************************************************************************)
\* User.__init__: the handle is trimmed, the email trimmed and case-folded;
\* the role column defaults to 'user'
User(username, email, password) ==
    [username |-> strip(username),
     email |-> lower(strip(email)),
     password_hash |-> generate_password_hash(password),
     role |-> "user"]

\* User.set_password
set_password(row, password) ==
    [row EXCEPT !.password_hash = generate_password_hash(password)]

\* INTEGER PRIMARY KEY of a new row: one more than the largest stored id
NextId(table) ==
    IF DOMAIN table = {} THEN 1
    ELSE (CHOOSE m \in DOMAIN table : \A i \in DOMAIN table : i <= m) + 1

\* db.session.add(row) for a row of a new id
Insert(table, row) ==
    [i \in DOMAIN table \cup {NextId(table)} |->
        IF i \in DOMAIN table THEN table[i] ELSE row]

\* db.session.delete(row)
Remove(table, id) == [i \in DOMAIN table \ {id} |-> table[i]]

\* User.query.filter_by(username=...): the ids of the matching rows
filter_by_username(U, username) == {i \in DOMAIN U : U[i].username = username}

\* User.query.filter_by(email=...): SQLite compares text byte by byte
filter_by_email(U, email) == {i \in DOMAIN U : U[i].email = email}

\* the test role == 'admin', which the handlers apply to the caller
\* (current_user.role), to the target row (user.role) and, as
\* filter_by(role='admin'), to the rows they count
is_admin_other(row) == row.role # "user"

is_admin(row) == row.role = "admin"

\* User.query.filter_by(role='admin').count()
admin_count(U) == Cardinality({i \in DOMAIN U : is_admin(U[i])})

\* the UNIQUE constraints of users.username and users.email, which
\* db.session.commit() enforces (IntegrityError otherwise)
UsersUniqueOK(U) ==
    \A i, j \in DOMAIN U :
        i # j => U[i].username # U[j].username /\ U[i].email # U[j].email

\* load_user: the session's user id names a stored row
is_authenticated(caller) == caller \in DOMAIN users

(***************************************************************************)
(* Responses.                                                              *)
(***************************************************************************)
\* A response: the HTTP status, the text of its 'error' key (or of the flashed
\* error), the text of its 'message' key (or of the flashed success), and the
\* number formatted into the text, if any.
Reply(status, error, message) ==
    [status |-> status, error |-> error, message |-> message, arg |-> 0]

\* an outcome that leaves the three tables as they were
Unchanged(status, error) ==
    [users |-> users, software |-> software, licenses |-> licenses,
     response |-> Reply(status, error, "")]

\* @login_required without a valid session: redirect to the login page
login_required == Unchanged(302, "Please login to access this page.")

(***************************************************************************)
(* Requests.  A JSON body is a record: has is the set of keys the body     *)
(* carries ('key' in data), the other fields are the values of those keys. *)
(***************************************************************************)
UserKeys == {"username", "email", "password", "role"}

UsernameInputs == {<<"b", "o", "b">>, <<"b", "o", "b", " ">>}

EmailInputs == {<<"b", "@", "c">>, <<"B", "@", "c">>}

PasswordInputs == {<<"s", "e", "c", "r", "e", "t">>}

RoleInputs == {"admin", "user", "manager"}

UserBody(K, u, e, p, r) ==
    [has |-> K,
     username |-> IF "username" \in K THEN u ELSE <<>>,
     email |-> IF "email" \in K THEN e ELSE <<>>,
     password |-> IF "password" \in K THEN p ELSE <<>>,
     role |-> IF "role" \in K THEN r ELSE ""]

UserBodies ==
    {UserBody(K, u, e, p, r) :
        K \in SUBSET UserKeys, u \in UsernameInputs, e \in EmailInputs,
        p \in PasswordInputs, r \in RoleInputs}

\* the registration form: every field is always submitted, possibly blank
RegisterForms ==
    [username : UsernameInputs \cup {<<" ">>},
     email : EmailInputs \cup {<<>>},
     password : PasswordInputs \cup {<<>>, <<"p", "w", " ">>}]

\* session cookies: 0 is a visitor without a session, the others name a user
\* id, whether or not that row is still stored
Callers == 0 .. MaxUsers

UserIds == 1 .. MaxUsers

(***************************************************************************)
(* The user handlers.                                                      *)
(***************************************************************************)
\* the test user_id == current_user.id
own_account_never(caller, user_id) == FALSE

own_account(caller, user_id) == user_id = caller

\* db.session.commit() of a changed users table; an IntegrityError is caught
\* by the handler's except branch: rollback and 500
commit_users(U, status, message) ==
    IF UsersUniqueOK(U)
    THEN [users |-> U, software |-> software, licenses |-> licenses,
          response |-> Reply(status, "", message)]
    ELSE Unchanged(500, "Internal server error")

\* POST /register
register(caller, form) ==
    LET username == strip(form.username)
        email == strip(form.email)
        password == strip(form.password)
    IN  IF is_authenticated(caller)
        THEN Unchanged(302, "")
        ELSE IF username = <<>>
        THEN Unchanged(302, "Username is required")
        ELSE IF email = <<>>
        THEN Unchanged(302, "Email is required")
        ELSE IF password = <<>>
        THEN Unchanged(302, "Password is required")
        ELSE IF Len(password) < 6
        THEN Unchanged(302, "Password must be at least 6 characters long")
        ELSE IF filter_by_username(users, username) # {}
        THEN Unchanged(302, "Username already exists")
        ELSE IF filter_by_email(users, lower(email)) # {}
        THEN Unchanged(302, "Email already registered")
        ELSE LET done == commit_users(Insert(users, User(username, email, password)),
                            302, "Registration successful! Please login.")
             IN  IF done.response.status = 302
                 THEN done
                 ELSE Unchanged(302,
                          "An error occurred during registration. Please try again.")

\* POST /api/users
add_user(caller, data) ==
    IF ~is_authenticated(caller) THEN login_required
    ELSE IF ~is_admin(users[caller])
    THEN Unchanged(403, "Unauthorized")
    ELSE IF ~(UserKeys \subseteq data.has)
    THEN Unchanged(400, "Missing required fields")
    ELSE IF filter_by_username(users, data.username) # {}
    THEN Unchanged(400, "Username already exists")
    ELSE IF filter_by_email(users, data.email) # {}
    THEN Unchanged(400, "Email already exists")
    ELSE LET user == User(data.username, data.email, data.password)
         IN  commit_users(Insert(users, [user EXCEPT !.role = data.role]),
                 201, "User created successfully")

abandon_flushed(U, status, error) ==
    [users |-> U, software |-> software, licenses |-> licenses,
     response |-> Reply(status, error, "")]

\* a return before db.session.commit(): the assignments made so far, U, are
\* pending in the session, which the end of the request removes
abandon(U, status, error) == Unchanged(status, error)

\* PUT /api/users/<user_id>
update_user(caller, user_id, data) ==
    IF ~is_authenticated(caller) THEN login_required
    ELSE IF ~is_admin(users[caller])
    THEN Unchanged(403, "Unauthorized")
    ELSE IF user_id \notin DOMAIN users
    THEN Unchanged(404, "Not Found")
    ELSE
    LET dupName == /\ "username" \in data.has
                   /\ \E i \in filter_by_username(users, data.username) : i # user_id
        U1 == IF "username" \in data.has
              THEN [users EXCEPT ![user_id].username = data.username]
              ELSE users
        \* the email query flushes the pending username first
        dupEmail == /\ "email" \in data.has
                    /\ \E i \in filter_by_email(U1, data.email) : i # user_id
        U2 == IF "email" \in data.has
              THEN [U1 EXCEPT ![user_id].email = data.email]
              ELSE U1
        U3 == IF "password" \in data.has
              THEN [U2 EXCEPT ![user_id] = set_password(@, data.password)]
              ELSE U2
        ownRole == "role" \in data.has /\ own_account(caller, user_id)
        lastAdmin == /\ "role" \in data.has
                     /\ is_admin(U3[user_id])
                     /\ data.role # "admin"
                     /\ admin_count(U3) <= 1
        U4 == IF "role" \in data.has
              THEN [U3 EXCEPT ![user_id].role = data.role]
              ELSE U3
    IN  IF dupName THEN abandon(users, 400, "Username already exists")
        ELSE IF dupEmail THEN abandon(U1, 400, "Email already exists")
        ELSE IF ownRole THEN abandon(U3, 400, "Cannot change own role")
        ELSE IF lastAdmin THEN abandon(U3, 400, "Cannot remove last admin")
        ELSE commit_users(U4, 200, "User updated successfully")

\* PUT /api/users/<user_id> with its except branch: raised says that
\* db.session.commit() raised, which the handler answers with a rollback
try_update_user(raised, caller, user_id, data) ==
    LET done == update_user(caller, user_id, data)
    IN  IF raised /\ done.response.status = 200
        THEN Unchanged(500, "Internal server error")
        ELSE done

\* DELETE /api/users/<user_id>.  The licenses table has no ON DELETE rule
\* and the User model no relationship: the rows that name the user stay.
delete_user(caller, user_id) ==
    IF ~is_authenticated(caller) THEN login_required
    ELSE IF ~is_admin(users[caller])
    THEN Unchanged(403, "Unauthorized")
    ELSE IF own_account(caller, user_id)
    THEN Unchanged(400, "Cannot delete own account")
    ELSE IF user_id \notin DOMAIN users
    THEN Unchanged(404, "Not Found")
    ELSE IF is_admin(users[user_id]) /\ admin_count(users) <= 1
    THEN Unchanged(400, "Cannot delete last admin")
    ELSE commit_users(Remove(users, user_id), 200, "User deleted successfully")

(***************************************************************************)
(* Dates.  A stored date is its proleptic Gregorian ordinal                *)
(* (date.toordinal()); a date in a request body is text.                   *)
(***************************************************************************)
IsLeap(y) == (y % 4 = 0 /\ y % 100 # 0) \/ y % 400 = 0

DaysInMonth(y, m) ==
    IF m = 2 THEN (IF IsLeap(y) THEN 29 ELSE 28)
    ELSE IF m \in {4, 6, 9, 11} THEN 30 ELSE 31

RECURSIVE DaysBeforeMonth(_, _)
DaysBeforeMonth(y, m) ==
    IF m <= 1 THEN 0 ELSE DaysBeforeMonth(y, m - 1) + DaysInMonth(y, m - 1)

\* date(y, m, d).toordinal()
toordinal(y, m, d) ==
    365 * (y - 1) + ((y - 1) \div 4) - ((y - 1) \div 100) + ((y - 1) \div 400)
        + DaysBeforeMonth(y, m) + d

DigitChars == {"0", "1", "2", "3", "4", "5", "6", "7", "8", "9"}

DigitValue(c) ==
    CASE c = "0" -> 0 [] c = "1" -> 1 [] c = "2" -> 2 [] c = "3" -> 3
      [] c = "4" -> 4 [] c = "5" -> 5 [] c = "6" -> 6 [] c = "7" -> 7
      [] c = "8" -> 8 [] c = "9" -> 9

RECURSIVE ToNumber(_)
ToNumber(s) ==
    IF s = <<>> THEN 0
    ELSE 10 * ToNumber(SubSeq(s, 1, Len(s) - 1)) + DigitValue(s[Len(s)])

AllDigits(s) == \A i \in DOMAIN s : s[i] \in DigitChars

\* the year, month and day fields of a text of the shape Y-M-D
DateFields(s) ==
    LET dashes == {i \in DOMAIN s : s[i] = "-"}
        d1 == CHOOSE i \in dashes : \A j \in dashes : i <= j
        d2 == CHOOSE i \in dashes : \A j \in dashes : j <= i
    IN  [y |-> SubSeq(s, 1, d1 - 1), m |-> SubSeq(s, d1 + 1, d2 - 1),
         d |-> SubSeq(s, d2 + 1, Len(s))]

\* whether datetime.strptime(s, '%Y-%m-%d') returns (it raises ValueError
\* otherwise): four year digits, one or two month and day digits, and a
\* date of the calendar
strptime_ok(s) ==
    /\ Cardinality({i \in DOMAIN s : s[i] = "-"}) = 2
    /\ LET f == DateFields(s)
       IN  /\ AllDigits(f.y) /\ AllDigits(f.m) /\ AllDigits(f.d)
           /\ Len(f.y) = 4 /\ Len(f.m) \in {1, 2} /\ Len(f.d) \in {1, 2}
           /\ ToNumber(f.y) >= 1
           /\ ToNumber(f.m) \in 1 .. 12
           /\ ToNumber(f.d) \in 1 .. DaysInMonth(ToNumber(f.y), ToNumber(f.m))

\* datetime.strptime(s, '%Y-%m-%d').date()
strptime(s) ==
    LET f == DateFields(s)
    IN  toordinal(ToNumber(f.y), ToNumber(f.m), ToNumber(f.d))

\* datetime.now().date()
Today == toordinal(2026, 11, 2)

(***************************************************************************)
(* The software and licenses tables.                                       *)
(***************************************************************************)
\* Software.__init__
Software(name, vendor, description, license_type, total_licenses, cost_per_license, renewal_date) ==
    [name |-> name, vendor |-> vendor, description |-> description,
     license_type |-> license_type, total_licenses |-> total_licenses,
     cost_per_license |-> cost_per_license, renewal_date |-> renewal_date]

\* License.__init__
License(software_id, assigned_to, status) ==
    [software_id |-> software_id, assigned_to |-> assigned_to, status |-> status]

\* Software.query.filter_by(name=..., vendor=...): the ids of the matching rows
filter_by_name_vendor(S, name, vendor) ==
    {i \in DOMAIN S : S[i].name = name /\ S[i].vendor = vendor}

\* Query.first() on a set of matching ids: the row of the least rowid
first(ids) == CHOOSE i \in ids : \A j \in ids : i <= j

\* License.query.filter_by(software_id=..., status='active').count()
active_license_count_cased(L, software_id) ==
    Cardinality({i \in DOMAIN L :
        L[i].software_id = software_id /\ L[i].status = "Active"})

active_license_count(L, software_id) ==
    Cardinality({i \in DOMAIN L :
        L[i].software_id = software_id /\ L[i].status = "active"})

SoftwareKeys ==
    {"name", "vendor", "description", "license_type", "total_licenses",
     "cost_per_license", "renewal_date"}

required_fields ==
    {"name", "vendor", "license_type", "total_licenses", "cost_per_license",
     "renewal_date"}

NameInputs == {"SAP HANA Enterprise", "Slack"}

VendorInputs == {"SAP", "Salesforce"}

DescriptionInputs == {"Team chat"}

LicenseTypeInputs == {"Per User"}

TotalLicensesInputs == {-1, 0}

CostPerLicenseInputs == {-1, 8}

\* 2026-10-03, 2026-02-30 and 03/10/2026
RenewalDateInputs ==
    {<<"2", "0", "2", "6", "-", "1", "0", "-", "0", "3">>,
     <<"2", "0", "2", "6", "-", "0", "2", "-", "3", "0">>,
     <<"0", "3", "/", "1", "0", "/", "2", "0", "2", "6">>}

SoftwareBody(K, n, v, d, t, total, cost, date) ==
    [has |-> K,
     name |-> IF "name" \in K THEN n ELSE "",
     vendor |-> IF "vendor" \in K THEN v ELSE "",
     \* data.get('description', '')
     description |-> IF "description" \in K THEN d ELSE "",
     license_type |-> IF "license_type" \in K THEN t ELSE "",
     total_licenses |-> IF "total_licenses" \in K THEN total ELSE 0,
     cost_per_license |-> IF "cost_per_license" \in K THEN cost ELSE 0,
     renewal_date |-> IF "renewal_date" \in K THEN date ELSE <<>>]

SoftwareBodies ==
    {SoftwareBody(K, n, v, d, t, total, cost, date) :
        K \in SUBSET SoftwareKeys, n \in NameInputs, v \in VendorInputs,
        d \in DescriptionInputs, t \in LicenseTypeInputs,
        total \in TotalLicensesInputs, cost \in CostPerLicenseInputs,
        date \in RenewalDateInputs}

\* db.session.commit() of a changed software table
commit_software(S, status, message) ==
    [users |-> users, software |-> S, licenses |-> licenses,
     response |-> Reply(status, "", message)]

(***************************************************************************)
(* The software handlers.                                                  *)
(***************************************************************************)
\* the duplicate test of update_software: a row other than the updated one
\* is the first to hold the pair
exists_other_self(S, software_id, name, vendor) ==
    LET found == filter_by_name_vendor(S, name, vendor)
    IN  found # {} /\ first(found) = software_id

exists_other(S, software_id, name, vendor) ==
    LET found == filter_by_name_vendor(S, name, vendor)
    IN  found # {} /\ first(found) # software_id

\* POST /api/software
add_software(caller, data) ==
    IF ~is_authenticated(caller) THEN login_required
    ELSE IF ~is_admin(users[caller])
    THEN Unchanged(403, "Unauthorized")
    ELSE IF ~(required_fields \subseteq data.has)
    THEN Unchanged(400, "Missing required fields")
    ELSE IF filter_by_name_vendor(software, data.name, data.vendor) # {}
    THEN Unchanged(400, "Software already exists")
    ELSE IF ~strptime_ok(data.renewal_date)
    THEN Unchanged(500, "Internal server error")
    ELSE commit_software(
             Insert(software,
                 Software(data.name, data.vendor,
                     data.description,
                     data.license_type, data.total_licenses,
                     data.cost_per_license, strptime(data.renewal_date))),
             201, "Software added successfully")

\* PUT /api/software/<software_id>
update_software(caller, software_id, data) ==
    IF ~is_authenticated(caller) THEN login_required
    ELSE IF ~is_admin(users[caller])
    THEN Unchanged(403, "Unauthorized")
    ELSE IF software_id \notin DOMAIN software
    THEN Unchanged(404, "Not Found")
    ELSE
    LET dupName == /\ "name" \in data.has
                   /\ exists_other(software, software_id, data.name,
                          software[software_id].vendor)
        S1 == IF "name" \in data.has
              THEN [software EXCEPT ![software_id].name = data.name]
              ELSE software
        \* the vendor query flushes the pending name first
        dupVendor == /\ "vendor" \in data.has
                     /\ exists_other(S1, software_id, S1[software_id].name,
                            data.vendor)
        S2 == IF "vendor" \in data.has
              THEN [S1 EXCEPT ![software_id].vendor = data.vendor]
              ELSE S1
        S3 == IF "description" \in data.has
              THEN [S2 EXCEPT ![software_id].description = data.description]
              ELSE S2
        S4 == IF "license_type" \in data.has
              THEN [S3 EXCEPT ![software_id].license_type = data.license_type]
              ELSE S3
        S5 == IF "total_licenses" \in data.has
              THEN [S4 EXCEPT ![software_id].total_licenses = data.total_licenses]
              ELSE S4
        S6 == IF "cost_per_license" \in data.has
              THEN [S5 EXCEPT ![software_id].cost_per_license = data.cost_per_license]
              ELSE S5
        badDate == "renewal_date" \in data.has /\ ~strptime_ok(data.renewal_date)
        S7 == IF "renewal_date" \in data.has
              THEN [S6 EXCEPT ![software_id].renewal_date = strptime(data.renewal_date)]
              ELSE S6
    IN  IF dupName \/ dupVendor
        THEN Unchanged(400, "Software already exists")
        ELSE IF badDate
        THEN Unchanged(500, "Internal server error")
        ELSE commit_software(S7, 200, "Software updated successfully")

delete_software_open(caller, software_id) ==
    IF ~is_authenticated(caller) THEN login_required
    ELSE IF software_id \notin DOMAIN software
    THEN Unchanged(404, "Not Found")
    ELSE IF active_license_count(licenses, software_id) > 0
    THEN [Unchanged(400, "Cannot delete software with {active_licenses} active licenses")
          EXCEPT !.response.arg = active_license_count(licenses, software_id)]
    ELSE IF \E i \in DOMAIN licenses : licenses[i].software_id = software_id
    THEN Unchanged(500, "Internal server error")
    ELSE commit_software(Remove(software, software_id), 200,
             "Software deleted successfully")

\* DELETE /api/software/<software_id>.  Deleting a row that still has
\* licenses sets their software_id to NULL, which the NOT NULL column
\* refuses: IntegrityError, rollback, 500.
delete_software(caller, software_id) ==
    IF ~is_authenticated(caller) THEN login_required
    ELSE IF ~is_admin(users[caller])
    THEN Unchanged(403, "Unauthorized")
    ELSE IF software_id \notin DOMAIN software
    THEN Unchanged(404, "Not Found")
    ELSE
    LET active_licenses == active_license_count(licenses, software_id)
    IN  IF active_licenses > 0
        THEN [Unchanged(400,
                  "Cannot delete software with {active_licenses} active licenses")
              EXCEPT !.response.arg = active_licenses]
        ELSE IF \E i \in DOMAIN licenses : licenses[i].software_id = software_id
        THEN Unchanged(500, "Internal server error")
        ELSE commit_software(Remove(software, software_id), 200,
                 "Software deleted successfully")

(***************************************************************************)
(* The state after init_db() on an empty database: the admin account, a    *)
(* demo user, one sample software and its license assignments.  The sample *)
(* seat count is scaled down; init_db assigns int(total * u) licenses, u   *)
(* drawn from [0.6, 0.9], each to a user drawn from the users table.       *)
(***************************************************************************)
SeedUsers ==
    LET admin == User(<<"a", "d", "m", "i", "n">>, <<"a", "d", "m", "i", "n", "@", "s">>,
                      <<"A", "d", "m", "i", "n", "@", "1", "2", "3">>)
        demo == User(<<"j", "o", "h", "n">>, <<"j", "o", "h", "n", "@", "c">>,
                     <<"U", "s", "e", "r", "@", "1", "2", "3">>)
    IN  Insert(Insert(<<>>, [admin EXCEPT !.role = "admin"]), demo)

SeedSoftware ==
    Insert(<<>>, Software("SAP HANA Enterprise", "SAP", "In-Memory Database Platform",
                          "Per Core", 3, 12000, Today + 45))

\* the license counts init_db can draw for a seat count
SeedLicenseCounts(total) == ((6 * total) \div 10) .. ((9 * total) \div 10)

Init ==
    /\ users = SeedUsers
    /\ software = SeedSoftware
    /\ \E n \in SeedLicenseCounts(SeedSoftware[1].total_licenses) :
           \E who \in [1 .. n -> DOMAIN SeedUsers] :
               licenses = [i \in 1 .. n |-> License(1, who[i], "active")]
    /\ response = Reply(0, "", "")
    /\ inflight = <<>>

(***************************************************************************)
(* The routes.  Each action is one request, handled from its first line to *)
(* its response; the tables hold at most MaxUsers and MaxSoftware rows.    *)
(***************************************************************************)
SoftwareIds == 1 .. MaxSoftware

Apply(outcome) ==
    \E r \in {outcome} :
        /\ DOMAIN r.users \subseteq UserIds
        /\ DOMAIN r.software \subseteq SoftwareIds
        /\ users' = r.users
        /\ software' = r.software
        /\ licenses' = r.licenses
        /\ response' = r.response
        /\ UNCHANGED inflight

\* The admin routes answer a caller who is not an admin before they read
\* the body: one body stands for all of them there.
SentBy(caller, bodies) ==
    IF is_authenticated(caller) /\ is_admin(users[caller])
    THEN bodies
    ELSE {CHOOSE b \in bodies : TRUE}

POST_register(forms) ==
    \E caller \in Callers, form \in forms : Apply(register(caller, form))

POST_api_users(bodies) ==
    \E caller \in Callers :
        \E data \in SentBy(caller, bodies) : Apply(add_user(caller, data))

PUT_api_users(bodies) ==
    \E caller \in Callers, user_id \in UserIds :
        \E data \in SentBy(caller, bodies) :
            Apply(update_user(caller, user_id, data))

DELETE_api_users ==
    \E caller \in Callers, user_id \in UserIds : Apply(delete_user(caller, user_id))

POST_api_software(bodies) ==
    \E caller \in Callers :
        \E data \in SentBy(caller, bodies) : Apply(add_software(caller, data))

PUT_api_software(bodies) ==
    \E caller \in Callers, software_id \in SoftwareIds :
        \E data \in SentBy(caller, bodies) :
            Apply(update_software(caller, software_id, data))

DELETE_api_software ==
    \E caller \in Callers, software_id \in SoftwareIds :
        Apply(delete_software(caller, software_id))

(***************************************************************************)
(* SpecUsers: the user routes, over the seeded database.                   *)
(***************************************************************************)
\* Register forms: the well-formed ones and one form for each validation
\* error.
RegisterRequests ==
    [username : UsernameInputs, email : EmailInputs, password : PasswordInputs]
    \cup {[username |-> <<" ">>, email |-> <<>>, password |-> <<>>],
          [username |-> <<"b", "o", "b">>, email |-> <<>>, password |-> <<>>],
          [username |-> <<"b", "o", "b">>, email |-> <<"b", "@", "c">>,
           password |-> <<>>],
          [username |-> <<"b", "o", "b">>, email |-> <<"b", "@", "c">>,
           password |-> <<"p", "w", " ">>]}

\* POST /api/users bodies: the complete ones and one that lacks a key
PostUserRequests ==
    {b \in UserBodies : b.has = UserKeys \/ b.has = {"username"}}

\* PUT /api/users bodies: up to two of username, email and role
PutUserRequests ==
    {b \in UserBodies : "password" \notin b.has /\ Cardinality(b.has) <= 2}

NextUsers ==
    \/ POST_register(RegisterRequests)
    \/ POST_api_users(PostUserRequests)
    \/ PUT_api_users(PutUserRequests)
    \/ DELETE_api_users

\* init_db with the fewest licenses it can assign, each to the demo user
InitUsers ==
    /\ Init
    /\ \A n \in SeedLicenseCounts(SeedSoftware[1].total_licenses) :
           Cardinality(DOMAIN licenses) <= n
    /\ \A i \in DOMAIN licenses : licenses[i].assigned_to = 2

SpecUsers == InitUsers /\ [][NextUsers]_vars

(***************************************************************************)
(* SpecUserUpdates: PUT /api/users with every body, over the seeded users. *)
(***************************************************************************)
PUT_api_users_raising(bodies) ==
    \E caller \in Callers, user_id \in UserIds, raised \in BOOLEAN :
        \E data \in SentBy(caller, bodies) :
            Apply(try_update_user(raised, caller, user_id, data))

NextUserUpdates == PUT_api_users_raising(UserBodies)

SpecUserUpdates == InitUsers /\ [][NextUserUpdates]_vars

(***************************************************************************)
(* SpecSoftware: the software routes, over the seeded database.            *)
(***************************************************************************)
\* The seat count and the cost travel together in these requests: a free
\* product without seats, or both numbers negative.
PairedNumbers(b) ==
    \/ b.total_licenses = 0 /\ b.cost_per_license = 8
    \/ b.total_licenses = -1 /\ b.cost_per_license = -1

\* POST /api/software bodies: the complete ones (description is optional)
\* and one that lacks a required key
PostSoftwareRequests ==
    {b \in SoftwareBodies :
        \/ b.has = required_fields /\ PairedNumbers(b)
        \/ b.has = {"name", "vendor"}}

\* PUT /api/software bodies: every combination of name and vendor, alone,
\* with both numbers, or with a renewal date that does not parse
PutSoftwareRequests ==
    {b \in SoftwareBodies :
        \/ b.has \subseteq {"name", "vendor"}
        \/ /\ b.has \ {"name", "vendor"} = {"total_licenses", "cost_per_license"}
           /\ PairedNumbers(b)
        \/ /\ b.has \ {"name", "vendor"} = {"renewal_date"}
           /\ ~strptime_ok(b.renewal_date)}

NextSoftware ==
    \/ POST_api_software(PostSoftwareRequests)
    \/ PUT_api_software(PutSoftwareRequests)
    \/ DELETE_api_software

\* init_db with every license assigned to the demo user
InitSoftware ==
    /\ Init
    /\ \A i \in DOMAIN licenses : licenses[i].assigned_to = 2

SpecSoftware == InitSoftware /\ [][NextSoftware]_vars

(***************************************************************************)
(* SpecConcurrent: requests handled side by side, as the threaded server   *)
(* handles them.  Each request has its own session; nothing is written     *)
(* before db.session.commit(), and no handler takes a lock, so the         *)
(* requests of other workers can run between a handler's checks and its    *)
(* commit.  Each of MaxInFlight workers handles one request: DELETE        *)
(* /api/users/<id>, PUT /api/users/<id> with a role, or POST /api/software,*)
(* over the seeded database after the demo user was made an admin.         *)
(***************************************************************************)
MaxInFlight == 2

InitConcurrent ==
    /\ users = [SeedUsers EXCEPT ![2].role = "admin"]
    /\ software = SeedSoftware
    /\ \E n \in SeedLicenseCounts(SeedSoftware[1].total_licenses) :
           licenses = [i \in 1 .. n |-> License(1, 2, "active")]
    /\ response = Reply(0, "", "")
    /\ inflight = <<>>

\* a handler runs from its first line up to db.session.commit(): a request
\* it refuses is answered, another one waits with the write it will commit
Begin(w, outcome, success, op, id, row) ==
    /\ w \notin DOMAIN inflight
    /\ inflight' =
           [k \in DOMAIN inflight \cup {w} |->
               IF k # w THEN inflight[k]
               ELSE IF outcome.response.status = success
               THEN [pc |-> "commit", op |-> op, id |-> id, row |-> row]
               ELSE [pc |-> "done", op |-> op, id |-> id, row |-> <<>>]]
    /\ IF outcome.response.status = success
       THEN UNCHANGED <<users, software, licenses, response>>
       ELSE /\ users' = outcome.users
            /\ software' = outcome.software
            /\ licenses' = outcome.licenses
            /\ response' = outcome.response

BEGIN_DELETE_api_users ==
    \E w \in 1 .. MaxInFlight, caller \in Callers, user_id \in UserIds :
        Begin(w, delete_user(caller, user_id), 200, "delete_user", user_id, <<>>)

BEGIN_PUT_api_users ==
    \E w \in 1 .. MaxInFlight, caller \in Callers, user_id \in UserIds,
       role \in RoleInputs :
        LET data == UserBody({"role"}, <<>>, <<>>, <<>>, role)
        IN  Begin(w, update_user(caller, user_id, data), 200, "update_user", user_id,
                  [role |-> role,
                   dirty |-> user_id \in DOMAIN users /\ users[user_id].role # role])

BEGIN_POST_api_software ==
    \E w \in 1 .. MaxInFlight, caller \in Callers :
    \E data \in {b \in SentBy(caller, PostSoftwareRequests) :
                    b.total_licenses = 0 /\ b.vendor = "Salesforce"} :
        Begin(w, add_software(caller, data), 201, "add_software", 0,
              IF required_fields \subseteq data.has /\ strptime_ok(data.renewal_date)
              THEN Software(data.name, data.vendor, data.description,
                            data.license_type, data.total_licenses,
                            data.cost_per_license, strptime(data.renewal_date))
              ELSE <<>>)

\* db.session.commit() of a waiting request, against the tables as they
\* are now: DELETE FROM users WHERE id = ..., which a row already gone
\* only answers with a warning; UPDATE users SET role = ... WHERE id = ...,
\* which a row already gone fails (StaleDataError, hence rollback and 500);
\* INSERT INTO software, which no constraint on (name, vendor) can fail
COMMIT ==
    \E w \in DOMAIN inflight :
        LET request == inflight[w]
        IN  /\ request.pc = "commit"
            /\ inflight' = [inflight EXCEPT ![w].pc = "done"]
            /\ UNCHANGED licenses
            /\ CASE request.op = "delete_user" ->
                     /\ users' = Remove(users, request.id)
                     /\ response' = Reply(200, "", "User deleted successfully")
                     /\ UNCHANGED software
                 [] request.op = "update_user" ->
                     /\ users' = IF request.row.dirty /\ request.id \in DOMAIN users
                                 THEN [users EXCEPT ![request.id].role = request.row.role]
                                 ELSE users
                     /\ response' = IF request.row.dirty /\ request.id \notin DOMAIN users
                                    THEN Reply(500, "Internal server error", "")
                                    ELSE Reply(200, "", "User updated successfully")
                     /\ UNCHANGED software
                 [] request.op = "add_software" ->
                     /\ software' = Insert(software, request.row)
                     /\ response' = Reply(201, "", "Software added successfully")
                     /\ UNCHANGED users

NextConcurrent ==
    \/ BEGIN_DELETE_api_users
    \/ BEGIN_PUT_api_users
    \/ BEGIN_POST_api_software
    \/ COMMIT

SpecConcurrent == InitConcurrent /\ [][NextConcurrent]_vars

(***************************************************************************)
(* Spec: every route, over the seeded database, with a sample of the       *)
(* requests of SpecUsers and SpecSoftware.                                 *)
(***************************************************************************)
SampleRegisterRequests ==
    {f \in RegisterRequests :
        f.username = <<"b", "o", "b">> /\ f.email = <<"b", "@", "c">>}

SamplePostUserRequests ==
    {b \in PostUserRequests :
        /\ b.username = <<"b", "o", "b">> /\ b.email = <<"b", "@", "c">>
        /\ b.role # "admin"}

SamplePutUserRequests ==
    {b \in PutUserRequests : b.has = {"role"} /\ b.role \in {"admin", "user"}}

SamplePostSoftwareRequests ==
    {b \in PostSoftwareRequests :
        /\ b.name = "Slack" /\ b.vendor = "Salesforce"
        /\ b.has = required_fields => b.total_licenses = 0 /\ strptime_ok(b.renewal_date)}

SamplePutSoftwareRequests ==
    {b \in SoftwareBodies :
        \/ b.has = {"name"}
        \/ b.has = {"description", "license_type", "renewal_date"}}

Next ==
    \/ POST_register(SampleRegisterRequests)
    \/ POST_api_users(SamplePostUserRequests)
    \/ PUT_api_users(SamplePutUserRequests)
    \/ DELETE_api_users
    \/ POST_api_software(SamplePostSoftwareRequests)
    \/ PUT_api_software(SamplePutSoftwareRequests)
    \/ DELETE_api_software

Spec == InitUsers /\ [][Next]_vars

(***************************************************************************)
(* The values derived on read.  A percentage is the exact fraction         *)
(* [num, den] with den > 0; Python computes it in binary floating point,   *)
(* which orders and compares these fractions with 30, 70 and 80 as the     *)
(* exact values do for the seat counts used here.                          *)
(***************************************************************************)
Frac(num, den) == IF den > 0 THEN [num |-> num, den |-> den]
                  ELSE [num |-> 0 - num, den |-> 0 - den]

FracLess(a, b) == a.num * b.den < b.num * a.den

FracEq(a, b) == a.num * b.den = b.num * a.den

Whole(n) == [num |-> n, den |-> 1]

\* sum(f(x) for x in ids)
RECURSIVE SumOver(_, _)
SumOver(f, ids) ==
    IF ids = {} THEN 0
    ELSE LET i == CHOOSE x \in ids : TRUE
         IN  f[i] + SumOver(f, ids \ {i})

used_licenses_any_status(L, software_id) ==
    Cardinality({i \in DOMAIN L : L[i].software_id = software_id})

\* Software.used_licenses
used_licenses(L, software_id) == active_license_count(L, software_id)

\* Software.usage_percentage
usage_percentage(S, L, software_id) ==
    IF S[software_id].total_licenses = 0 THEN Whole(0)
    ELSE Frac(used_licenses(L, software_id) * 100, S[software_id].total_licenses)

\* Software.total_cost
total_cost(S, software_id) ==
    S[software_id].total_licenses * S[software_id].cost_per_license

\* Software.days_until_renewal, read at the date today
days_until_renewal(S, software_id, today) == S[software_id].renewal_date - today

\* sum(1 for s in software_list if P(s)), P given as the set of its rows
CountOf(ids) == Cardinality(ids)

usage_low_closed(S, L, i) == ~FracLess(Whole(30), usage_percentage(S, L, i))

\* s.usage_percentage < 30
usage_low(S, L, i) == FracLess(usage_percentage(S, L, i), Whole(30))

\* s.usage_percentage >= 80
usage_high(S, L, i) == ~FracLess(usage_percentage(S, L, i), Whole(80))

\* 30 <= s.usage_percentage < 80
usage_medium(S, L, i) ==
    /\ ~FracLess(usage_percentage(S, L, i), Whole(30))
    /\ FracLess(usage_percentage(S, L, i), Whole(80))

expired_strict(S, i, today) == S[i].renewal_date < today

\* s.renewal_date <= today
is_expired(S, i, today) == S[i].renewal_date <= today

\* s.renewal_date <= thirty_days and s.renewal_date > today
is_expiring(S, i, today) ==
    S[i].renewal_date <= today + 30 /\ S[i].renewal_date > today

\* get_dashboard_stats(), reading the clock as today
get_dashboard_stats(S, L, today) ==
    LET ids == DOMAIN S
        total_licenses == SumOver([i \in ids |-> S[i].total_licenses], ids)
        active_licenses == SumOver([i \in ids |-> used_licenses(L, i)], ids)
        cost == SumOver([i \in ids |-> S[i].total_licenses * S[i].cost_per_license], ids)
        low == {i \in ids : usage_low(S, L, i)}
    IN  [total_software |-> Cardinality(ids),
         total_licenses |-> total_licenses,
         active_licenses |-> active_licenses,
         total_cost |-> cost,
         utilization |-> IF total_licenses > 0
                         THEN Frac(active_licenses * 100, total_licenses)
                         ELSE Whole(0),
         expiring_soon |-> CountOf({i \in ids : is_expiring(S, i, today)}),
         expired |-> CountOf({i \in ids : is_expired(S, i, today)}),
         avg_cost_per_license |-> IF total_licenses > 0
                                  THEN Frac(cost, total_licenses)
                                  ELSE Whole(0),
         potential_savings |->
             SumOver([i \in ids |-> (S[i].total_licenses - used_licenses(L, i))
                                        * S[i].cost_per_license], low),
         license_types |->
             [t \in {S[i].license_type : i \in ids} |->
                 CountOf({i \in ids : S[i].license_type = t})],
         vendor_distribution |->
             [v \in {S[i].vendor : i \in ids} |->
                 CountOf({i \in ids : S[i].vendor = v})],
         usage_categories |->
             [high |-> CountOf({i \in ids : usage_high(S, L, i)}),
              medium |-> CountOf({i \in ids : usage_medium(S, L, i)}),
              low |-> CountOf(low)],
         cost_categories |->
             [high |-> CountOf({i \in ids : total_cost(S, i) >= 100000}),
              medium |-> CountOf({i \in ids : 10000 <= total_cost(S, i)
                                               /\ total_cost(S, i) < 100000}),
              low |-> CountOf({i \in ids : total_cost(S, i) < 10000})]]

\* the record get_dashboard_stats() returns from its except branch
dashboard_stats_on_error_stale ==
    [total_software |-> 0, total_licenses |-> 0, active_licenses |-> 0,
     total_cost |-> 0, utilization |-> Whole(0), expiring_soon |-> 0,
     expired |-> 0, avg_cost_per_license |-> Whole(0), potential_savings |-> 0,
     license_types |-> <<>>, vendor_distribution |-> <<>>,
     usage_categories |-> [high |-> 0, medium |-> 0, low |-> 1],
     cost_categories |-> [high |-> 0, medium |-> 0, low |-> 0]]

dashboard_stats_on_error ==
    [total_software |-> 0, total_licenses |-> 0, active_licenses |-> 0,
     total_cost |-> 0, utilization |-> Whole(0), expiring_soon |-> 0,
     expired |-> 0, avg_cost_per_license |-> Whole(0), potential_savings |-> 0,
     license_types |-> <<>>, vendor_distribution |-> <<>>,
     usage_categories |-> [high |-> 0, medium |-> 0, low |-> 0],
     cost_categories |-> [high |-> 0, medium |-> 0, low |-> 0]]

\* get_dashboard_stats() with its try and except: raised says that a step
\* of the try block raised
try_get_dashboard_stats(raised, S, L, today) ==
    IF raised THEN dashboard_stats_on_error ELSE get_dashboard_stats(S, L, today)

(***************************************************************************)
(* Lists of rows: a list holds the ids of its rows.                        *)
(***************************************************************************)
\* Software.query.all(): the rows in rowid order
RECURSIVE ascending(_)
ascending(ids) ==
    IF ids = {} THEN <<>>
    ELSE LET m == CHOOSE i \in ids : \A j \in ids : i <= j
         IN  <<m>> \o ascending(ids \ {m})

query_all(S) == ascending(DOMAIN S)

\* the rows of a list, each with its key: sorted() calls key once a row
RECURSIVE decorate(_, _)
decorate(list, key) ==
    IF list = <<>> THEN <<>>
    ELSE Append(decorate(SubSeq(list, 1, Len(list) - 1), key),
                [row |-> list[Len(list)], key |-> key[list[Len(list)]]])

\* the stable sort of the decorated rows
RECURSIVE sort_decorated(_, _)
sort_decorated(pairs, reverse) ==
    IF pairs = <<>> THEN <<>>
    ELSE LET init == sort_decorated(SubSeq(pairs, 1, Len(pairs) - 1), reverse)
             x == pairs[Len(pairs)]
             before(y) == IF reverse THEN ~FracLess(y.key, x.key)
                          ELSE ~FracLess(x.key, y.key)
             n == Cardinality({j \in DOMAIN init : before(init[j])})
         IN  SubSeq(init, 1, n) \o <<x>> \o SubSeq(init, n + 1, Len(init))

RECURSIVE undecorate(_)
undecorate(pairs) ==
    IF pairs = <<>> THEN <<>>
    ELSE Append(undecorate(SubSeq(pairs, 1, Len(pairs) - 1)), pairs[Len(pairs)].row)

\* sorted(list, key=..., reverse=...): stable, rows of equal key keep
\* their order
sorted(list, key, reverse) == undecorate(sort_decorated(decorate(list, key), reverse))

\* list[start:stop] for integers start and stop: a negative index counts
\* from the end, and both are clamped to the list
py_slice(list, start, stop) ==
    LET n == Len(list)
        clamp(k) == IF k < 0 THEN (IF k + n < 0 THEN 0 ELSE k + n)
                    ELSE IF k > n THEN n ELSE k
    IN  IF clamp(start) < clamp(stop)
        THEN SubSeq(list, clamp(start) + 1, clamp(stop))
        ELSE <<>>

\* [s for s in list if s in keep]
filtered(list, keep) == SelectSeq(list, LAMBDA i : i \in keep)

get_top_software_by_used(S, L) ==
    py_slice(sorted(query_all(S), [i \in DOMAIN S |-> Whole(used_licenses(L, i))], TRUE),
             0, 3)

\* get_top_software()
get_top_software(S, L) ==
    py_slice(sorted(query_all(S), [i \in DOMAIN S |-> usage_percentage(S, L, i)], TRUE),
             0, 3)

\* get_top_software() with its try and except
try_get_top_software(raised, S, L) ==
    IF raised THEN <<>> ELSE get_top_software(S, L)

\* round(x, 2) of a fraction, in hundredths: the nearest, and the even one
\* of two equally near; equal to Python's result on the binary value for
\* every seat sum below 160, which the collections here stay under
round2(x) ==
    LET twice == (2 * 100 * x.num) \div x.den
        low == twice \div 2
    IN  IF twice % 2 = 0 THEN low
        ELSE IF (2 * 100 * x.num) % x.den # 0 THEN low + 1
        ELSE IF low % 2 = 0 THEN low ELSE low + 1

\* GET /dashboard: the context given to dashboard.html
dashboard(caller, S, L) ==
    IF ~is_authenticated(caller) THEN login_required.response
    ELSE LET ids == DOMAIN S
             total_licenses == SumOver([i \in ids |-> S[i].total_licenses], ids)
             used == SumOver([i \in ids |-> used_licenses(L, i)], ids)
             utilization == IF total_licenses > 0
                            THEN Frac(used * 100, total_licenses) ELSE Whole(0)
         IN  [view |-> "dashboard.html",
              flash |-> "",
              stats |-> [total_software |-> Cardinality(ids),
                         total_licenses |-> total_licenses,
                         used_licenses |-> used,
                         utilization |-> round2(utilization)],
              top_software |->
                  py_slice(sorted(query_all(S),
                                  [i \in ids |-> Whole(used_licenses(L, i))], TRUE),
                           0, 5)]

\* GET /dashboard with its try and except
try_dashboard(raised, caller, S, L) ==
    IF ~is_authenticated(caller) THEN login_required.response
    ELSE IF raised
    THEN [view |-> "dashboard.html",
          flash |-> "Error loading dashboard",
          stats |-> [total_software |-> 0, total_licenses |-> 0,
                     used_licenses |-> 0, utilization |-> 0],
          top_software |-> <<>>]
    ELSE dashboard(caller, S, L)

(***************************************************************************)
(* GET /software-inventory: the context given to software_inventory.html.  *)
(* filter_type and page are the query parameters, today is the clock.      *)
(***************************************************************************)
per_page == 12

is_active_at_least(S, L, i) == ~FracLess(usage_percentage(S, L, i), Whole(70))

\* s.usage_percentage > 70
is_active(S, L, i) == FracLess(Whole(70), usage_percentage(S, L, i))

\* the sorted list of a category
category_list(S, L, today, category) ==
    LET all_software == query_all(S)
        ids == DOMAIN S
    IN  CASE category = "active" ->
                 sorted(filtered(all_software, {i \in ids : is_active(S, L, i)}),
                        [i \in ids |-> usage_percentage(S, L, i)], TRUE)
          [] category = "expiring" ->
                 sorted(filtered(all_software, {i \in ids : is_expiring(S, i, today)}),
                        [i \in ids |-> Whole(S[i].renewal_date)], FALSE)
          [] category = "expired" ->
                 sorted(filtered(all_software, {i \in ids : is_expired(S, i, today)}),
                        [i \in ids |-> Whole(S[i].renewal_date)], TRUE)

\* filtered_software[start:end] if start < total else []
paginate(list, page) ==
    IF (page - 1) * per_page < Len(list)
    THEN py_slice(list, (page - 1) * per_page, (page - 1) * per_page + per_page)
    ELSE <<>>

category_top_page(S, L, today, category) ==
    py_slice(category_list(S, L, today, category), 0, per_page)

\* sorted(...)[:8]
category_top(S, L, today, category) ==
    py_slice(category_list(S, L, today, category), 0, 8)

software_inventory(caller, S, L, filter_type, page, today) ==
    IF ~is_authenticated(caller) THEN login_required.response
    ELSE IF DOMAIN S = {} THEN
        [view |-> "software_inventory.html", software_list |-> <<>>,
         filter_type |-> filter_type, page |-> 1, per_page |-> per_page,
         total |-> 0, has_next |-> FALSE, has_prev |-> FALSE, pages |-> 1]
    ELSE IF filter_type \in {"active", "expiring", "expired"} THEN
        LET filtered_software == category_list(S, L, today, filter_type)
            total == Len(filtered_software)
        IN  [view |-> "software_inventory.html",
             software_list |-> paginate(filtered_software, page),
             filter_type |-> filter_type, page |-> page, per_page |-> per_page,
             total |-> total,
             has_next |-> (page - 1) * per_page + per_page < total,
             has_prev |-> page > 1,
             pages |-> (total + per_page - 1) \div per_page]
    ELSE
        [view |-> "software_inventory.html",
         active_software |-> category_top(S, L, today, "active"),
         expiring_software |-> category_top(S, L, today, "expiring"),
         expired_software |-> category_top(S, L, today, "expired"),
         filter_type |-> filter_type, page |-> 1, per_page |-> per_page,
         total |-> Cardinality(DOMAIN S),
         has_next |-> FALSE, has_prev |-> FALSE, pages |-> 1]

\* GET /software-inventory with its try and except blocks: raised names the
\* inner try block that raised, "query" (824-841) or "processing" (847-904),
\* which an empty table never enters
try_software_inventory(raised, caller, S, L, filter_type, page, today) ==
    IF ~is_authenticated(caller) THEN login_required.response
    ELSE IF raised = "query"
    THEN Reply(302, "Error accessing software inventory.", "")
    ELSE IF raised = "processing" /\ DOMAIN S # {}
    THEN Reply(302, "Error processing software inventory.", "")
    ELSE software_inventory(caller, S, L, filter_type, page, today)

(***************************************************************************)
(* GET /api/software/search and GET /api/export-report.  Both print dates  *)
(* and the export prints numbers; a text that is printed is a string, a    *)
(* text that is searched is a sequence of characters.                      *)
(***************************************************************************)
\* str(n).zfill(width) of a natural number
RECURSIVE zfill(_, _)
zfill(n, width) ==
    IF width <= 1 THEN ToString(n)
    ELSE IF n < 10 THEN "0" \o zfill(n, width - 1)
    ELSE zfill(n \div 10, width - 1) \o ToString(n % 10)

\* renewal_date.strftime('%Y-%m-%d') of the date of ordinal n, for the years
\* 2020 to 2030
strftime(n) ==
    LET year == CHOOSE y \in 2020 .. 2030 :
                    toordinal(y, 1, 1) <= n /\ n < toordinal(y + 1, 1, 1)
        month == CHOOSE m \in 1 .. 12 :
                     /\ toordinal(year, m, 1) <= n
                     /\ n < toordinal(year, m, 1) + DaysInMonth(year, m)
        day == n - toordinal(year, month, 1) + 1
    IN  zfill(year, 4) \o "-" \o zfill(month, 2) \o "-" \o zfill(day, 2)

\* f"{x:.1f}%" of a usage percentage x over a seat count of the sign given:
\* the nearest tenth, and the even one of two equally near; equal to
\* Python's print of the binary value for every seat count below 80
format_usage(negative, x) ==
    LET num == IF x.num < 0 THEN 0 - x.num ELSE x.num
        twice == (2 * 10 * num) \div x.den
        exact == twice * x.den = 2 * 10 * num
        down == twice \div 2
        tenths == IF twice % 2 = 0 THEN down
                  ELSE IF exact /\ down % 2 = 0 THEN down ELSE down + 1
    IN  (IF negative THEN "-" ELSE "") \o ToString(tenths \div 10) \o "."
            \o ToString(tenths % 10) \o "%"

\* f"{n:,}" of a natural number
RECURSIVE thousands(_)
thousands(n) ==
    IF n < 1000 THEN ToString(n)
    ELSE thousands(n \div 1000) \o "," \o zfill(n % 1000, 3)

\* f"${n:,.2f}" of a whole amount
format_money(n) ==
    "$" \o (IF n < 0 THEN "-" \o thousands(0 - n) ELSE thousands(n)) \o ".00"

\* text LIKE pattern of SQLite on lower-cased operands: % stands for any
\* run of characters and _ for any one
RECURSIVE like(_, _)
like(text, pattern) ==
    IF pattern = <<>> THEN text = <<>>
    ELSE IF Head(pattern) = "%"
    THEN like(text, Tail(pattern)) \/ (text # <<>> /\ like(Tail(text), pattern))
    ELSE /\ text # <<>>
         /\ Head(pattern) = "_" \/ Head(pattern) = Head(text)
         /\ like(Tail(text), Tail(pattern))

\* GET /api/software/search?q=...
search_software(raised, caller, S, L, q, today) ==
    IF ~is_authenticated(caller) THEN login_required.response
    ELSE LET query == strip(q)
             \* column.ilike(f'%{query}%')
             ilike(text, pattern) ==
                 like(lower(text), lower(<<"%">> \o pattern \o <<"%">>))
             software_list ==
                 filtered(query_all(S),
                          {i \in DOMAIN S : \/ ilike(S[i].name, query)
                                             \/ ilike(S[i].vendor, query)
                                             \/ ilike(S[i].description, query)})
         IN  IF query = <<>> THEN Reply(400, "Search query is required", "")
             ELSE IF raised THEN Reply(500, "Internal server error", "")
             ELSE [status |-> 200,
                   results |->
                       [k \in 1 .. Len(software_list) |->
                           LET i == software_list[k]
                           IN  [id |-> i,
                                name |-> S[i].name,
                                vendor |-> S[i].vendor,
                                description |-> S[i].description,
                                license_type |-> S[i].license_type,
                                total_licenses |-> S[i].total_licenses,
                                used_licenses |-> used_licenses(L, i),
                                usage_percentage |-> usage_percentage(S, L, i),
                                cost_per_license |-> S[i].cost_per_license,
                                total_cost |-> total_cost(S, i),
                                renewal_date |-> strftime(S[i].renewal_date),
                                days_until_renewal |->
                                    days_until_renewal(S, i, today)]]]

\* GET /api/export-report: the header and the rows written to the file
export_report(raised, caller, S, L, today) ==
    IF ~is_authenticated(caller) THEN login_required.response
    ELSE IF raised
    THEN Reply(302, "An error occurred while exporting the report.", "")
    ELSE LET software_list == query_all(S)
         IN  [download_name |-> "SAMurAI_Report.csv",
              header |->
                  <<"Software Name", "Vendor", "Total Licenses", "Used Licenses",
                    "Usage %", "Cost Per License", "Total Cost", "Renewal Date",
                    "Days Until Renewal">>,
              rows |->
                  [k \in 1 .. Len(software_list) |->
                      LET i == software_list[k]
                      IN  [name |-> S[i].name,
                           vendor |-> S[i].vendor,
                           total_licenses |-> S[i].total_licenses,
                           used_licenses |-> used_licenses(L, i),
                           usage |-> format_usage(S[i].total_licenses < 0,
                                                  usage_percentage(S, L, i)),
                           cost_per_license |-> format_money(S[i].cost_per_license),
                           total_cost |-> format_money(total_cost(S, i)),
                           renewal_date |-> strftime(S[i].renewal_date),
                           days_until_renewal |-> days_until_renewal(S, i, today)]]]

(***************************************************************************)
(* SpecDashboard: get_dashboard_stats, get_top_software and GET /dashboard *)
(* over software collections.  A collection is a run of the rows of a      *)
(* catalogue, as POST and PUT /api/software can leave them, with the       *)
(* license rows of each; the status column of a license is free text, and  *)
(* some rows carry licenses of another status than 'active'.               *)
(***************************************************************************)
MaxRows == 6

\* seats, active licenses, other licenses, cost per seat, days to renewal
SampleRow(total, active, other, cost, days) ==
    [total_licenses |-> total, active |-> active, other |-> other,
     cost_per_license |-> cost, days |-> days]

DashboardCatalogue ==
    <<SampleRow(100, 80, 0, 10, 45),
      SampleRow(10, 3, 1, 1000, -1),
      SampleRow(0, 0, 0, 8, 0),
      SampleRow(4, 3, 0, 25000, 30),
      SampleRow(10, 2, 2, 5, 31),
      SampleRow(5, 4, 0, 2, 1),
      SampleRow(1, 1, 1, 99999, 29),
      SampleRow(-1, 1, 0, -1, -30)>>

\* the software table of n rows taken from a catalogue, from its row k + 1
\* on in steps of stride, around its end
SampleSoftware(catalogue, n, k, stride) ==
    [i \in 1 .. n |->
        LET row == catalogue[((k + (i - 1) * stride) % Len(catalogue)) + 1]
        IN  Software("Product " \o ToString(i), "Vendor", "", "Per User",
                     row.total_licenses, row.cost_per_license, Today + row.days)]

\* the licenses table of those rows
RECURSIVE SampleLicenses(_, _, _, _)
SampleLicenses(catalogue, n, k, stride) ==
    IF n = 0 THEN <<>>
    ELSE LET row == catalogue[((k + (n - 1) * stride) % Len(catalogue)) + 1]
         IN  SampleLicenses(catalogue, n - 1, k, stride)
                 \o [j \in 1 .. row.active |-> License(n, 2, "active")]
                 \o [j \in 1 .. row.other |-> License(n, 1, "inactive")]

\* datetime.now().date() of a read
ClockInputs == {Today - 1, Today, Today + 1}

InitDashboard ==
    /\ users = SeedUsers
    /\ \E n \in 0 .. MaxRows, k \in 0 .. Len(DashboardCatalogue) - 1, stride \in {1, 3} :
           /\ software = SampleSoftware(DashboardCatalogue, n, k, stride)
           /\ licenses = SampleLicenses(DashboardCatalogue, n, k, stride)
    /\ response = Reply(0, "", "")
    /\ inflight = <<>>

Read_touching(result) ==
    /\ response' = result
    /\ licenses' = [j \in DOMAIN licenses |-> [licenses[j] EXCEPT !.status = "used"]]
    /\ UNCHANGED <<users, software, inflight>>

\* a read: no handler of a read adds, changes, deletes or commits a row, so
\* the tables stay, and the result is the response
Read(result) ==
    /\ response' = result
    /\ UNCHANGED <<users, software, licenses, inflight>>

CALL_get_dashboard_stats ==
    \E today \in ClockInputs, raised \in BOOLEAN :
        Read([call |-> "get_dashboard_stats", today |-> today, raised |-> raised,
              result |-> try_get_dashboard_stats(raised, software, licenses, today)])

CALL_get_top_software ==
    \E raised \in BOOLEAN :
        Read([call |-> "get_top_software", raised |-> raised,
              result |-> try_get_top_software(raised, software, licenses)])

GET_dashboard ==
    \E caller \in Callers, raised \in BOOLEAN :
        Read(try_dashboard(raised, caller, software, licenses))

NextDashboard ==
    \/ CALL_get_dashboard_stats
    \/ CALL_get_top_software
    \/ GET_dashboard

SpecDashboard == InitDashboard /\ [][NextDashboard]_vars

(***************************************************************************)
(* SpecInventory: GET /software-inventory over software collections of up  *)
(* to MaxInventory rows, more than a page of 12.  The catalogue holds 14   *)
(* software of more than 70 percent usage and two of less; its renewal     *)
(* dates lie mostly ahead, and behind in the mirrored catalogue.           *)
(***************************************************************************)
MaxInventory == 15

InventoryCatalogue ==
    <<SampleRow(4, 3, 0, 10, 5),
      SampleRow(1, 1, 0, 10, 30),
      SampleRow(5, 4, 1, 10, 1),
      SampleRow(4, 3, 0, 10, -1),
      SampleRow(2, 2, 0, 10, 0),
      SampleRow(10, 8, 0, 10, 31),
      SampleRow(4, 3, 0, 10, 5),
      SampleRow(1, 1, 1, 10, -40),
      SampleRow(5, 4, 0, 10, 12),
      SampleRow(3, 3, 0, 10, 30),
      SampleRow(4, 3, 0, 10, 2),
      SampleRow(2, 2, 0, 10, 29),
      SampleRow(5, 4, 0, 10, 7),
      SampleRow(7, 5, 0, 10, 1),
      SampleRow(10, 7, 0, 10, 3),
      SampleRow(0, 1, 0, 10, -1)>>

\* the catalogue with every renewal date as far behind as it was ahead
Mirrored(catalogue) ==
    [i \in DOMAIN catalogue |-> [catalogue[i] EXCEPT !.days = 0 - @]]

FilterInputs == {"active", "expiring", "expired", "all", "Active"}

PageInputs == {-1, 0, 1, 2, 3}

InventoryClockInputs == {Today, Today + 1}

\* where in the catalogue a collection starts: at its first row, within,
\* and at the two rows of less usage
StartInputs == {0, 3, 14}

InitInventory ==
    /\ users = SeedUsers
    /\ \E n \in 0 .. MaxInventory, k \in StartInputs,
          catalogue \in {InventoryCatalogue, Mirrored(InventoryCatalogue)} :
           /\ software = SampleSoftware(catalogue, n, k, 1)
           /\ licenses = SampleLicenses(catalogue, n, k, 1)
    /\ response = Reply(0, "", "")
    /\ inflight = <<>>

\* the response to a read, with the query parameters and the clock of the
\* request
GET_software_inventory ==
    \E caller \in 0 .. 1 :
    \E filter_type \in IF is_authenticated(caller) THEN FilterInputs ELSE {"all"},
       page \in IF is_authenticated(caller) THEN PageInputs ELSE {1},
       today \in IF is_authenticated(caller) THEN InventoryClockInputs ELSE {Today} :
    \E raised \in IF is_authenticated(caller) /\ filter_type = "all" /\ page = 1
                      /\ today = Today
                   THEN {"", "query", "processing"} ELSE {""} :
        Read([request |-> [filter |-> filter_type, page |-> page, today |-> today,
                           raised |-> raised],
              context |-> try_software_inventory(raised, caller, software, licenses,
                                                 filter_type, page, today)])

NextInventory == GET_software_inventory

SpecInventory == InitInventory /\ [][NextInventory]_vars

(***************************************************************************)
(* SpecReads: every aggregation and read operation over small collections  *)
(* whose names, vendors and descriptions are texts that a search matches.  *)
(***************************************************************************)
MaxReads == 2

\* request.args.get('q', ''): the default, blanks, and queries with and
\* without the wildcards of LIKE
QueryInputs ==
    {<<>>, <<" ">>, <<" ", "a", "B">>, <<"_", "c">>, <<"%">>, <<"z">>}

\* sample tables whose software carry texts of letters, blanks and signs
InitReads ==
    LET texts ==
            <<[name |-> <<"C", "a", "b">>, vendor |-> <<"A", "C", "B">>,
               description |-> <<>>],
              [name |-> <<"a", "b", "c">>, vendor |-> <<"c", "a", "b">>,
               description |-> <<"b", "%">>],
              [name |-> <<"B", " ", "c">>, vendor |-> <<"A", "C", "B">>,
               description |-> <<"c", "a">>]>>
        Named(S) ==
            [i \in DOMAIN S |->
                LET text == texts[(i % Len(texts)) + 1]
                IN  [S[i] EXCEPT !.name = text.name, !.vendor = text.vendor,
                                 !.description = text.description]]
    IN  /\ users = SeedUsers
        /\ \E n \in 0 .. MaxReads, k \in {0, 3, 7} :
               /\ software = Named(SampleSoftware(DashboardCatalogue, n, k, 1))
               /\ licenses = SampleLicenses(DashboardCatalogue, n, k, 1)
        /\ response = Reply(0, "", "")
        /\ inflight = <<>>

GET_api_software_search ==
    \E caller \in 0 .. 1, q \in QueryInputs, today \in ClockInputs, raised \in BOOLEAN :
        Read([request |-> [q |-> q, today |-> today, raised |-> raised],
              json |-> search_software(raised, caller, software, licenses, q, today)])

GET_api_export_report ==
    \E caller \in 0 .. 1, today \in ClockInputs, raised \in BOOLEAN :
        Read([request |-> [today |-> today, raised |-> raised],
              file |-> export_report(raised, caller, software, licenses, today)])

NextReads ==
    \/ CALL_get_dashboard_stats
    \/ CALL_get_top_software
    \/ GET_dashboard
    \/ GET_software_inventory
    \/ GET_api_software_search
    \/ GET_api_export_report

SpecReads == InitReads /\ [][NextReads]_vars

(***************************************************************************)
(* SpecInitDb: init_db at every start of the application, from the empty   *)
(* database on, with the user routes that can rename, demote and delete    *)
(* the seeded users between two starts.  The seed is the admin, one of the *)
(* demo users and one sample software, as in Init.                         *)
(***************************************************************************)
\* init_db() over the tables U, S and L; picked[k] is the draw of
\* random.choice(users) for the k-th license, and there are as many
\* licenses as draws.  An exception removes the database file.
init_db(U, S, L, picked) ==
    LET added == Insert(Insert(U, SeedUsers[1]), SeedUsers[2])
        all_users == ascending(DOMAIN added)
        new == NextId(L) .. (NextId(L) + Len(picked) - 1)
        seeded == [i \in DOMAIN L \cup new |->
                      IF i \in DOMAIN L THEN L[i]
                      ELSE License(NextId(S),
                               all_users[((picked[i - NextId(L) + 1] - 1)
                                             % Len(all_users)) + 1],
                               "active")]
    IN  IF filter_by_username(U, SeedUsers[1].username) # {}
        THEN [users |-> U, software |-> S, licenses |-> L, raised |-> FALSE]
        \* Software.query.count() flushes the pending users first
        ELSE IF ~UsersUniqueOK(added)
        THEN [users |-> <<>>, software |-> <<>>, licenses |-> <<>>, raised |-> TRUE]
        ELSE IF DOMAIN S # {}
        THEN [users |-> U, software |-> S, licenses |-> L, raised |-> FALSE]
        ELSE [users |-> added, software |-> Insert(S, SeedSoftware[1]),
              licenses |-> seeded, raised |-> FALSE]

\* the database file that db.create_all() has just created
InitFresh ==
    /\ users = <<>>
    /\ software = <<>>
    /\ licenses = <<>>
    /\ response = Reply(0, "", "")
    /\ inflight = <<>>

CALL_init_db ==
    \E n \in SeedLicenseCounts(SeedSoftware[1].total_licenses) :
    \E picked \in [1 .. n -> 1 .. 2] :
        LET done == init_db(users, software, licenses, picked)
        IN  /\ users' = done.users
            /\ software' = done.software
            /\ licenses' = done.licenses
            /\ response' = [call |-> "init_db", raised |-> done.raised]
            /\ UNCHANGED inflight

NextInitDb ==
    \/ CALL_init_db
    \/ PUT_api_users({b \in PutUserRequests :
                         b.has = {"username", "email"} \/ b.has = {"role"}})
    \/ DELETE_api_users

SpecInitDb == InitFresh /\ [][NextInitDb]_vars

(***************************************************************************)
(* Claims.                                                                 *)
(***************************************************************************)
\* the callers that hold a session of a stored user
LoggedIn == {c \in Callers : c \in DOMAIN users}

\* the ids of the stored users whose role is 'admin'
Admins == {i \in DOMAIN users : users[i].role = "admin"}

\* an outcome that changed none of the three tables
TablesKept(r) ==
    r.users = users /\ r.software = software /\ r.licenses = licenses

\* C1: after any sequence of register, POST, PUT and DELETE user requests,
\* handled one at a time, a user of role 'admin' is still stored.
C1_AdminExists == Admins # {}

\* an admin other than the seeded one is stored alone: the seeded admin was
\* demoted or deleted by an admin who was created or promoted before
C1_Witness ==
    /\ Admins # {}
    /\ 1 \notin Admins
    /\ response.message \in {"User deleted successfully", "User updated successfully"}

\* C2: when exactly one user is an admin, DELETE /api/users/<id> of that
\* user is rejected, whoever of the logged-in users sends it, and the user
\* stays stored.
C2_SoleAdminNotDeleted ==
    Cardinality(Admins) = 1 =>
        \A caller \in LoggedIn, user_id \in Admins :
            LET r == delete_user(caller, user_id)
            IN  /\ r.response.status \in {400, 403}
                /\ r.response.error # ""
                /\ r.users = users

\* the sole admin has just been refused the deletion of their own account
C2_Witness ==
    /\ Cardinality(Admins) = 1
    /\ Cardinality(DOMAIN users) > 1
    /\ response.status = 400
    /\ response.error = "Cannot delete own account"

\* C3: no two stored software rows hold the same (name, vendor) pair.
C3_NameVendorUnique ==
    \A i, j \in DOMAIN software :
        i # j => ~(software[i].name = software[j].name
                   /\ software[i].vendor = software[j].vendor)

\* two rows are stored and a request that would have made them equal was
\* refused
C3_Witness ==
    /\ Cardinality(DOMAIN software) = 2
    /\ response.status = 400
    /\ response.error = "Software already exists"

\* C4: DELETE /api/software/<id> by an admin, of a software with k >= 1
\* active licenses, is answered 400 'Cannot delete software with k active
\* licenses' and changes no table.
C4_DeleteBlockedByActiveLicenses ==
    \A caller \in Admins, software_id \in DOMAIN software :
        LET k == Cardinality({i \in DOMAIN licenses :
                     /\ licenses[i].software_id = software_id
                     /\ licenses[i].status = "active"})
            r == delete_software(caller, software_id)
        IN  k >= 1 =>
                /\ r.response.status = 400
                /\ r.response.error =
                       "Cannot delete software with {active_licenses} active licenses"
                /\ r.response.arg = k
                /\ TablesKept(r)

\* the deletion of a software with active licenses has just been refused
C4_Witness ==
    /\ response.status = 400
    /\ response.error = "Cannot delete software with {active_licenses} active licenses"
    /\ response.arg >= 1
    /\ \E i \in DOMAIN licenses :
           licenses[i].software_id \in DOMAIN software /\ licenses[i].status = "active"

\* an outcome that answers 403 and changes no table
Refused(r) == r.response.status = 403 /\ TablesKept(r)

\* C5: each of the six admin endpoints, called by a logged-in user whose
\* role is not 'admin', answers 403 and changes no table, for every body
\* and every target id, stored or not.
C5_NonAdminForbidden ==
    \A caller \in LoggedIn \ Admins :
        /\ \A data \in UserBodies :
               /\ Refused(add_user(caller, data))
               /\ \A user_id \in UserIds : Refused(update_user(caller, user_id, data))
        /\ \A user_id \in UserIds : Refused(delete_user(caller, user_id))
        /\ \A data \in PostSoftwareRequests \cup PutSoftwareRequests :
               /\ Refused(add_software(caller, data))
               /\ \A software_id \in SoftwareIds :
                      Refused(update_software(caller, software_id, data))
        /\ \A software_id \in SoftwareIds : Refused(delete_software(caller, software_id))

\* a user who is not an admin has just been refused by an admin endpoint
C5_Witness ==
    /\ response.status = 403
    /\ response.error = "Unauthorized"
    /\ LoggedIn \ Admins # {}

\* C6: an admin's PUT /api/users/<own id> that carries 'role', and an
\* admin's DELETE /api/users/<own id>, are answered 400 and leave the
\* admin stored with the same role.
C6_OwnRoleAndAccountKept ==
    \A caller \in LoggedIn \cap Admins :
        /\ \A data \in {b \in UserBodies : "role" \in b.has} :
               LET r == update_user(caller, caller, data)
               IN  /\ r.response.status = 400
                   /\ caller \in DOMAIN r.users
                   /\ r.users[caller].role = users[caller].role
        /\ LET r == delete_user(caller, caller)
           IN  /\ r.response.status = 400
               /\ caller \in DOMAIN r.users
               /\ r.users[caller].role = users[caller].role

\* an admin has just been refused the change of their own role
C6_Witness ==
    /\ response.status = 400
    /\ response.error = "Cannot change own role"
    /\ Admins # {}

\* C7: every stored email is in lower case and no two stored emails are
\* equal after case-folding.
C7_EmailsCaseFolded ==
    /\ \A i \in DOMAIN users : users[i].email = lower(users[i].email)
    /\ \A i, j \in DOMAIN users :
           i # j => lower(users[i].email) # lower(users[j].email)

\* C8: POST /api/users by an admin whose username (trimmed) or email
\* (case-folded) is already stored is answered 400, never 500, and stores
\* no user.
C8_DuplicateUserRejected ==
    \A caller \in LoggedIn \cap Admins :
        \A data \in {b \in UserBodies : b.has = UserKeys} :
            (\E i \in DOMAIN users :
                \/ users[i].username = strip(data.username)
                \/ users[i].email = lower(strip(data.email)))
            => /\ add_user(caller, data).response.status = 400
               /\ add_user(caller, data).users = users

\* C9: every stored role is 'admin' or 'user'.
C9_RolesValid == \A i \in DOMAIN users : users[i].role \in {"admin", "user"}

\* C10: every stored software has a seat count >= 0 and a cost >= 0.
C10_NumbersNonNegative ==
    \A i \in DOMAIN software :
        software[i].total_licenses >= 0 /\ software[i].cost_per_license >= 0

\* C11: POST /api/software and PUT /api/software/<id> by an admin with a
\* renewal_date that is not a valid YYYY-MM-DD date are answered 400 and
\* leave the software table unchanged.
C11_BadDateRejected ==
    \A caller \in LoggedIn \cap Admins :
        \A data \in {b \in SoftwareBodies :
                        "renewal_date" \in b.has /\ ~strptime_ok(b.renewal_date)} :
            /\ required_fields \subseteq data.has =>
                   LET r == add_software(caller, data)
                   IN  r.response.status = 400 /\ r.software = software
            /\ \A software_id \in DOMAIN software :
                   LET r == update_software(caller, software_id, data)
                   IN  r.response.status = 400 /\ r.software = software

\* C12: whatever the operations have stored, the potential_savings that
\* get_dashboard_stats returns is >= 0.
C12_SavingsNonNegative ==
    get_dashboard_stats(software, licenses, Today).potential_savings >= 0

\* whether the usage percentage of a stored software, the active licenses
\* that reference it over its seats times 100 (0 without seats), is at
\* least c
UsageAtLeast(i, c) ==
    LET t == software[i].total_licenses
        u == Cardinality({j \in DOMAIN licenses :
                 licenses[j].software_id = i /\ licenses[j].status = "active"})
    IN  IF t = 0 THEN 0 >= c
        ELSE IF t > 0 THEN 100 * u >= c * t
        ELSE 100 * u <= c * t

\* get_dashboard_stats has just returned
StatsReturned ==
    /\ "call" \in DOMAIN response
    /\ response.call = "get_dashboard_stats"
    /\ ~response.raised

\* C13: get_dashboard_stats counts each software in exactly one usage
\* category, high (>= 80), medium (30 to below 80) or low (below 30), so
\* the three counts add up to total_software.
C13_UsagePartition ==
    StatsReturned =>
        LET c == response.result.usage_categories
        IN  /\ c.high = Cardinality({i \in DOMAIN software : UsageAtLeast(i, 80)})
            /\ c.medium = Cardinality({i \in DOMAIN software :
                              UsageAtLeast(i, 30) /\ ~UsageAtLeast(i, 80)})
            /\ c.low = Cardinality({i \in DOMAIN software : ~UsageAtLeast(i, 30)})
            /\ c.high + c.medium + c.low = response.result.total_software
            /\ response.result.total_software = Cardinality(DOMAIN software)

\* the statistics of a collection with software in each category, one of
\* them at exactly 30 percent and one at exactly 80 percent
C13_Witness ==
    /\ StatsReturned
    /\ response.result.usage_categories.high >= 1
    /\ response.result.usage_categories.medium >= 1
    /\ response.result.usage_categories.low >= 1
    /\ \E i, j \in DOMAIN software :
           /\ UsageAtLeast(i, 30) /\ ~UsageAtLeast(i, 31)
           /\ UsageAtLeast(j, 80) /\ ~UsageAtLeast(j, 81)

\* the seats of all stored software, and the active licenses that
\* reference a stored software
SeatSum == SumOver([i \in DOMAIN software |-> software[i].total_licenses], DOMAIN software)

ActiveSum ==
    Cardinality({j \in DOMAIN licenses :
        licenses[j].software_id \in DOMAIN software /\ licenses[j].status = "active"})

CostSum ==
    SumOver([i \in DOMAIN software |->
                software[i].total_licenses * software[i].cost_per_license],
            DOMAIN software)

\* C14: the utilization of get_dashboard_stats is 0 when the seats add up
\* to 0 and the active licenses over the seats times 100 otherwise;
\* avg_cost_per_license is 0 when the seats add up to 0 and the total cost
\* over the seats otherwise.
C14_UtilizationExact ==
    LET r == get_dashboard_stats(software, licenses, Today)
    IN  /\ SeatSum = 0 => r.utilization.num = 0 /\ r.avg_cost_per_license.num = 0
        /\ SeatSum # 0 =>
               /\ r.utilization.num * SeatSum = ActiveSum * 100 * r.utilization.den
               /\ r.avg_cost_per_license.num * SeatSum
                      = CostSum * r.avg_cost_per_license.den

\* the licenses that do not count for a software: those of another
\* software and those of another status than 'active'
NotCountedFor(i) ==
    {j \in DOMAIN licenses :
        licenses[j].software_id # i \/ licenses[j].status # "active"}

\* a software of 100 seats at cost 10 with 80 active licenses
IsScenarioRow(i) ==
    /\ software[i].total_licenses = 100
    /\ software[i].cost_per_license = 10
    /\ Cardinality(DOMAIN licenses \ NotCountedFor(i)) = 80

\* C15: used_licenses counts the licenses of this software with status
\* 'active' and no other license; usage_percentage is used / total * 100,
\* and 0 without seats; total_cost is seats times cost; a software of 100
\* seats, 80 active licenses and cost 10 has used 80, usage 80 and total
\* cost 1000, and counts as high usage and low cost.
C15_DerivedValues ==
    /\ \A i \in DOMAIN software :
           LET used == used_licenses(licenses, i)
               usage == usage_percentage(software, licenses, i)
               total == software[i].total_licenses
           IN  /\ used + Cardinality(NotCountedFor(i)) = Cardinality(DOMAIN licenses)
               /\ total = 0 => usage.num = 0
               /\ total # 0 => usage.num * total = used * 100 * usage.den
               /\ usage.den > 0
               /\ total_cost(software, i) = total * software[i].cost_per_license
               /\ IsScenarioRow(i) =>
                      /\ used = 80
                      /\ usage.num = 80 * usage.den
                      /\ total_cost(software, i) = 1000
                      /\ usage_high(software, licenses, i)
                      /\ total_cost(software, i) < 10000
    /\ (StatsReturned /\ DOMAIN software = {1} /\ IsScenarioRow(1)) =>
           /\ response.result.active_licenses = 80
           /\ response.result.total_cost = 1000
           /\ response.result.usage_categories = [high |-> 1, medium |-> 0, low |-> 0]
           /\ response.result.cost_categories = [high |-> 0, medium |-> 0, low |-> 1]

\* the statistics of a collection that holds the scenario software, next
\* to a software with an active license and one of another status
C15_Witness ==
    /\ StatsReturned
    /\ \E i \in DOMAIN software :
           /\ IsScenarioRow(i)
           /\ \E j, k \in NotCountedFor(i) :
                  /\ licenses[j].status = "active"
                  /\ licenses[k].status # "active"
    /\ response.result.usage_categories.high >= 1

\* C16: get_dashboard_stats at the date today counts in expiring_soon the
\* software with today < renewal_date <= today + 30 and in expired the
\* software with renewal_date <= today, no software in both; a software
\* that was to be renewed yesterday is expired, not expiring, and its
\* days_until_renewal is -1.
C16_ExpiringAndExpired ==
    StatsReturned =>
        LET today == response.today
            expiring == {i \in DOMAIN software :
                            today < software[i].renewal_date
                            /\ software[i].renewal_date <= today + 30}
            expired == {i \in DOMAIN software : software[i].renewal_date <= today}
            yesterday == {i \in DOMAIN software : software[i].renewal_date = today - 1}
        IN  /\ response.result.expiring_soon = Cardinality(expiring)
            /\ response.result.expired = Cardinality(expired)
            /\ expiring \cap expired = {}
            /\ \A i \in yesterday :
                   /\ is_expired(software, i, today)
                   /\ ~is_expiring(software, i, today)
                   /\ days_until_renewal(software, i, today) = -1
            /\ DOMAIN software = yesterday =>
                   /\ response.result.expired = Cardinality(DOMAIN software)
                   /\ response.result.expiring_soon = 0

\* the statistics of a collection with renewal dates yesterday, today, in
\* 30 days and in 31 days
C16_Witness ==
    /\ StatsReturned
    /\ \A d \in {-1, 0, 30, 31} :
           \E i \in DOMAIN software : software[i].renewal_date = response.today + d
    /\ response.result.expired >= 2
    /\ response.result.expiring_soon >= 1

\* the rows of a list
Rows(list) == {list[a] : a \in DOMAIN list}

\* a list of stored software without repetition in which every row comes
\* before each row of a smaller key and before each later stored row of
\* the same key, rows that the list leaves out included, and that leaves
\* out no row unless it holds n rows
IsTopBy(list, key, n) ==
    LET goes_before(i, j) ==
            \/ FracLess(key[j], key[i])
            \/ FracEq(key[i], key[j]) /\ i < j
    IN  /\ Rows(list) \subseteq DOMAIN software
        /\ Cardinality(Rows(list)) = Len(list)
        /\ Len(list) = IF Cardinality(DOMAIN software) < n
                       THEN Cardinality(DOMAIN software) ELSE n
        /\ \A a, b \in DOMAIN list : a < b => goes_before(list[a], list[b])
        /\ \A a \in DOMAIN list :
               \A i \in DOMAIN software \ Rows(list) : goes_before(list[a], i)

UsageKey == [i \in DOMAIN software |-> usage_percentage(software, licenses, i)]

UsedKey == [i \in DOMAIN software |-> Whole(used_licenses(licenses, i))]

TopReturned ==
    /\ "call" \in DOMAIN response
    /\ response.call = "get_top_software"
    /\ ~response.raised

DashboardReturned ==
    /\ "view" \in DOMAIN response
    /\ response.view = "dashboard.html"
    /\ response.flash = ""

\* C20: get_top_software returns the first min(3, n) software in
\* descending order of usage percentage, software of equal usage in their
\* stored order; the top list of the dashboard is the first min(5, n) in
\* descending order of used seats.
C20_TopSoftware ==
    /\ TopReturned => IsTopBy(response.result, UsageKey, 3)
    /\ DashboardReturned => IsTopBy(response.top_software, UsedKey, 5)

\* the dashboard of more than five software shows a top list whose first
\* three differ from those of get_top_software in membership, where two
\* software of equal usage are among the latter
C20_Witness ==
    /\ DashboardReturned
    /\ Cardinality(DOMAIN software) > 5
    /\ LET top == get_top_software(software, licenses)
       IN  /\ ~(Rows(top) \subseteq Rows(response.top_software))
           /\ top # SubSeq(response.top_software, 1, 3)
           /\ \E a, b \in DOMAIN top : a # b /\ FracEq(UsageKey[top[a]], UsageKey[top[b]])

\* GET /software-inventory has just rendered its template
InventoryReturned ==
    "context" \in DOMAIN response /\ "view" \in DOMAIN response.context

\* the stored software of a category at the date today
CategoryMembers(category, today) ==
    CASE category = "active" ->
             {i \in DOMAIN software : UsageAtLeast(i, 70) /\ ~FracEq(UsageKey[i], Whole(70))}
      [] category = "expiring" ->
             {i \in DOMAIN software : today < software[i].renewal_date
                                      /\ software[i].renewal_date <= today + 30}
      [] category = "expired" ->
             {i \in DOMAIN software : software[i].renewal_date <= today}

\* whether the sort key of a category puts software i before software j:
\* descending usage, ascending renewal date or descending renewal date
KeyBefore(category, i, j) ==
    CASE category = "active" -> FracLess(UsageKey[j], UsageKey[i])
      [] category = "expiring" -> software[i].renewal_date < software[j].renewal_date
      [] category = "expired" -> software[i].renewal_date > software[j].renewal_date

\* whether software i is listed before software j in a category: by the
\* sort key, and in stored order when the keys are equal
ListedBefore(category, i, j) ==
    \/ KeyBefore(category, i, j)
    \/ ~KeyBefore(category, j, i) /\ i < j

\* whether list holds the items of a category at the offsets from offset
\* up to but excluding offset + size, as far as the category reaches
IsSliceOf(list, category, today, offset, size) ==
    LET members == CategoryMembers(category, today)
        rest == Cardinality(members) - offset
    IN  /\ Len(list) = IF rest < 0 THEN 0 ELSE IF rest < size THEN rest ELSE size
        /\ \A a \in DOMAIN list :
               /\ list[a] \in members
               /\ Cardinality({j \in members : ListedBefore(category, j, list[a])})
                      = offset + a - 1

SingleModes == {"active", "expiring", "expired"}

\* C17: mode 'active' lists the software of usage above 70 percent in
\* descending usage order, 'expiring' those with today < renewal_date <=
\* today + 30 in ascending date order, 'expired' those with renewal_date <=
\* today in descending date order; no software is listed as both expiring
\* and expired.
C17_InventoryModes ==
    InventoryReturned =>
        LET ctx == response.context
            req == response.request
        IN  /\ (req.filter \in SingleModes) =>
                   /\ ctx.total = Cardinality(CategoryMembers(req.filter, req.today))
                   /\ req.page >= 1 =>
                          IsSliceOf(ctx.software_list, req.filter, req.today,
                                    (req.page - 1) * per_page, per_page)
            /\ ("expiring_software" \in DOMAIN ctx) =>
                   Rows(ctx.expiring_software) \cap Rows(ctx.expired_software) = {}

\* the second page of a mode that lists more than one page, some of its
\* software equal in the sort key
C17_Witness ==
    /\ InventoryReturned
    /\ response.request.filter \in SingleModes
    /\ response.request.page = 2
    /\ Len(response.context.software_list) >= 2
    /\ \E i, j \in CategoryMembers(response.request.filter, response.request.today) :
           /\ i # j
           /\ ~KeyBefore(response.request.filter, i, j)
           /\ ~KeyBefore(response.request.filter, j, i)
    /\ CategoryMembers(response.request.filter, response.request.today) # DOMAIN software

\* a list of the template context; a name the context lacks is undefined
\* in the template, which renders like the empty list
ListOf(ctx, name) == IF name \in DOMAIN ctx THEN ctx[name] ELSE <<>>

\* C18: in mode 'all', and in any mode that is none of 'active',
\* 'expiring' and 'expired', the view shows the first 8 items of each of
\* the three categories, whatever the page parameter is, as page 1 of 1
\* with no next and no previous page.
C18_AllModeTopEight ==
    (InventoryReturned /\ response.request.filter \notin SingleModes) =>
        LET ctx == response.context
            today == response.request.today
        IN  /\ IsSliceOf(ListOf(ctx, "active_software"), "active", today, 0, 8)
            /\ IsSliceOf(ListOf(ctx, "expiring_software"), "expiring", today, 0, 8)
            /\ IsSliceOf(ListOf(ctx, "expired_software"), "expired", today, 0, 8)
            /\ ctx.page = 1
            /\ ctx.pages = 1
            /\ ~ctx.has_next
            /\ ~ctx.has_prev
            /\ ctx.total = Cardinality(DOMAIN software)
            /\ ctx.filter_type = response.request.filter

\* mode 'all' was asked for page 2 of a collection with more than 8
\* software of high usage and more than 8 expired ones
C18_Witness ==
    /\ InventoryReturned
    /\ response.request.filter = "all"
    /\ response.request.page = 2
    /\ Cardinality(CategoryMembers("active", response.request.today)) > 8
    /\ Cardinality(CategoryMembers("expired", response.request.today)) > 8
    /\ Len(response.context.active_software) = 8
    /\ Len(response.context.expired_software) = 8
    /\ response.context.expiring_software # <<>>

\* C19: in the three single-category modes the page for any integer page
\* parameter holds the items at the offsets from (page - 1) * 12 up to but
\* excluding (page - 1) * 12 + 12 of the filtered list, and is empty when
\* (page - 1) * 12 is no offset into the list.
C19_PageSlices ==
    (InventoryReturned /\ response.request.filter \in SingleModes) =>
        LET ctx == response.context
            req == response.request
            offset == (req.page - 1) * per_page
        IN  IF 0 <= offset /\ offset < ctx.total
            THEN IsSliceOf(ctx.software_list, req.filter, req.today, offset, per_page)
            ELSE ctx.software_list = <<>>

StatsRaised ==
    /\ "call" \in DOMAIN response
    /\ response.call = "get_dashboard_stats"
    /\ response.raised

TopRaised ==
    /\ "call" \in DOMAIN response
    /\ response.call = "get_top_software"
    /\ response.raised

\* C21: when a step of get_dashboard_stats raises, the call returns the
\* record it returns for an empty inventory, with every number 0, both
\* frequency mappings empty and all category counts 0; get_top_software
\* returns the empty list in the same situation.
C21_FailureReturnsEmptyInventory ==
    /\ StatsRaised =>
          /\ response.result = get_dashboard_stats(<<>>, <<>>, response.today)
          /\ \A k \in {"total_software", "total_licenses", "active_licenses",
                         "total_cost", "expiring_soon", "expired",
                         "potential_savings"} : response.result[k] = 0
          /\ response.result.utilization.num = 0
          /\ response.result.avg_cost_per_license.num = 0
          /\ DOMAIN response.result.license_types = {}
          /\ DOMAIN response.result.vendor_distribution = {}
          /\ \A c \in {"high", "medium", "low"} :
                /\ response.result.usage_categories[c] = 0
                /\ response.result.cost_categories[c] = 0
    /\ TopRaised =>
          /\ response.result = <<>>
          /\ response.result = get_top_software(<<>>, <<>>)

\* a failed call over an inventory whose statistics are not the empty ones
C21_Witness ==
    /\ StatsRaised
    /\ software # <<>>
    /\ get_dashboard_stats(software, licenses, response.today).total_licenses > 0
    /\ get_dashboard_stats(software, licenses, response.today).usage_categories.low > 0

\* C22: the aggregation and read operations (get_dashboard_stats,
\* get_top_software, the dashboard, the software-inventory view in every
\* mode, search and CSV export) leave the users, software and licenses
\* tables exactly as they were, when they succeed and when they fail.
C22_ReadsKeepTables == [][UNCHANGED <<users, software, licenses>>]_vars

\* a failed export, and before it any read, over stored software and
\* licenses
C22_Witness ==
    /\ "file" \in DOMAIN response
    /\ response.request.raised
    /\ response.file.status = 302
    /\ DOMAIN software # {}
    /\ DOMAIN licenses # {}

\* C23: a PUT /api/users/<id> that is answered with an error (400 or 500)
\* leaves the stored username, email, password hash and role of every
\* user, the target included, as they were, also when earlier fields of
\* the body had passed their checks and been assigned.
C23_FailedUpdateKeepsUser ==
    [][response'.status \in {400, 500} =>
           /\ DOMAIN users' = DOMAIN users
           /\ \A i \in DOMAIN users :
                  /\ users'[i].username = users[i].username
                  /\ users'[i].email = users[i].email
                  /\ users'[i].password_hash = users[i].password_hash
                  /\ users'[i].role = users[i].role]_vars

\* an update has just been refused for its email, and some body refused so
\* carries a new username and a new password for its target
C23_Witness ==
    /\ response.status = 400
    /\ response.error = "Email already exists"
    /\ \E caller \in LoggedIn \cap Admins, user_id \in DOMAIN users, data \in UserBodies :
           /\ {"username", "email", "password"} \subseteq data.has
           /\ data.username # users[user_id].username
           /\ update_user(caller, user_id, data).response = response

\* the (name, vendor) pair that an update of a software with a body would
\* produce
ProducedPair(software_id, data) ==
    [name |-> IF "name" \in data.has THEN data.name ELSE software[software_id].name,
     vendor |-> IF "vendor" \in data.has THEN data.vendor
                ELSE software[software_id].vendor]

\* C24: PUT /api/software/<id> by an admin is answered 400 exactly when a
\* stored software other than the updated one holds the (name, vendor)
\* pair that the update would produce.
C24_DuplicateExactly ==
    \A caller \in LoggedIn \cap Admins, software_id \in DOMAIN software :
        \A data \in {b \in SoftwareBodies : b.has \subseteq {"name", "vendor"}} :
            update_software(caller, software_id, data).response.status = 400
            <=> \E j \in DOMAIN software \ {software_id} :
                    /\ software[j].name = ProducedPair(software_id, data).name
                    /\ software[j].vendor = ProducedPair(software_id, data).vendor

\* every worker has answered its request, one of the handlers ops
AllAnswered(ops) ==
    /\ DOMAIN inflight = 1 .. MaxInFlight
    /\ \A w \in DOMAIN inflight : inflight[w].pc = "done" /\ inflight[w].op \in ops

\* C25: when the requests of admin sessions interleave, with the
\* admin-count checks of a DELETE or demoting PUT running before either
\* commit, at least one admin exists after the requests have finished.
C25_AdminSurvivesInterleaving ==
    AllAnswered({"delete_user", "update_user"})
    => \E i \in DOMAIN users : is_admin(users[i])

\* C26: when POST /api/software requests with the same (name, vendor) pair
\* interleave, with the existence checks running before either commit, at
\* most one software with that pair is stored afterwards.
C26_PairUniqueUnderInterleaving ==
    AllAnswered({"add_software"}) =>
        \A i, j \in DOMAIN software :
            software[i].name = software[j].name /\ software[i].vendor = software[j].vendor
            => i = j

\* C27: whenever init_db returns without raising, a user with username
\* 'admin' and role 'admin' is stored, whatever the users and software
\* tables held before the call.
C27_AdminAfterInitDb ==
    ("call" \in DOMAIN response /\ response.call = "init_db" /\ ~response.raised)
    => \E i \in DOMAIN users :
           users[i].username = <<"a", "d", "m", "i", "n">> /\ users[i].role = "admin"

\* C28: after the seeding of init_db and any software create and update
\* requests, each software's number of active licenses is at most its seat
\* count, its usage percentage at most 100 and its unused-seat count
\* (seats minus active licenses) not negative.  Stated for the software
\* whose stored seat count is not negative.
C28_ActiveWithinSeats ==
    \A i \in DOMAIN software :
        software[i].total_licenses >= 0 =>
            /\ used_licenses(licenses, i) <= software[i].total_licenses
            /\ ~FracLess(Whole(100), usage_percentage(software, licenses, i))
            /\ software[i].total_licenses - used_licenses(licenses, i) >= 0

\* C29: after any sequence of user and software create, update and delete
\* requests, every stored license references a stored software and is
\* assigned to a stored user.
C29_LicensesReferenceStoredRows ==
    \A l \in DOMAIN licenses :
        /\ licenses[l].software_id \in DOMAIN software
        /\ licenses[l].assigned_to \in DOMAIN users

====
